---- MODULE Spec2Model ----
(***************************************************************************)
(* Model of package backoff (engage-ehs/kit): the Backoff retry controller *)
(* (New, Ongoing, Err, NumRetries, Wait, WaitFor, NextDelay), the context  *)
(* it watches, and the retry loops of its tests.                           *)
(*                                                                         *)
(* Durations are counted in milliseconds: every duration the controller    *)
(* computes is a whole number of milliseconds.                             *)
(***************************************************************************)
EXTENDS Integers, Sequences, FiniteSets, TLC

VARIABLES
    MaxRetries,   \* Backoff.MaxRetries
    parent,       \* kind of the context handed to New
    ctxDeadline,  \* whether b.ctx.Deadline() reports a deadline
    ctxErr,       \* b.ctx.Err()
    cancel,       \* Backoff.cancel: "nil" or "set"
    released,     \* whether b.cancel() has been invoked
    numRetries,   \* Backoff.numRetries
    nextDelay,    \* Backoff.nextDelay (DelaySpec: as a 64-bit word of nanoseconds)
    pc,           \* where the calling goroutine is inside the controller
    timer,        \* <<d>> while a time.After(d) is pending, << >> otherwise
    lastOp,       \* the last step taken
    arg,          \* the argument of the last WaitFor call (DelaySpec: the last jitter)
    ret,          \* what the last call returned
    entry,        \* numRetries and Ongoing() as they were when the last Wait/WaitFor call started
    loop,         \* position of the retry loop driving the controller ("none": free calls)
    body,         \* the operation the retry loop calls in its body
    iters,        \* iterations of the retry loop so far
    exporter      \* the exporter value handed to the Prometheus registry

vars == <<MaxRetries, parent, ctxDeadline, ctxErr, cancel, released, numRetries,
          nextDelay, pc, timer, lastOp, arg, ret, entry, loop, body, iters, exporter>>

ctrl == <<MaxRetries, parent, ctxDeadline, ctxErr, cancel, released, numRetries,
          nextDelay, pc, timer>>

-----------------------------------------------------------------------------
(* Bounds of the model *)

MaxN == 3        \* largest maxRetries handed to New
MaxCount == 5    \* cap on numRetries (a count-unbounded controller can wait for ever)
MaxD == 2        \* largest non-zero WaitFor argument, in seconds

(* Program constants *)

maxmilli == 1000
Millisecond == 1
Second == 1000

-----------------------------------------------------------------------------
(* Helpers *)

RECURSIVE Pow2(_)
Pow2(k) == IF k = 0 THEN 1 ELSE 2 * Pow2(k - 1)

\* a random integer of [0, n]
IntnInclusive(n) == {0, n \div 2, n}

\* rand.Intn(n): some integer of [0, n); the model samples both ends and the middle
Intn(n) == {0, n \div 2, n - 1}

\* the contexts a caller can hand to New, with the errors they may already carry
Parents == {"Background", "WithCancel", "WithTimeout"}

ParentErrs(k) ==
    CASE k = "Background" -> {"nil"}
      [] k = "WithCancel" -> {"nil", "context canceled"}
      [] k = "WithTimeout" -> {"nil", "context canceled", "context deadline exceeded"}

WaitForArgs == {k * Second : k \in 0..MaxD}

-----------------------------------------------------------------------------
(* The controller's pure queries *)

\* Ongoing with the count compared by <=
OngoingLE ==
    ctxErr = "nil" /\ (MaxRetries = 0 \/ numRetries <= MaxRetries)

\* Ongoing with the count compared by #
OngoingNE ==
    ctxErr = "nil" /\ (MaxRetries = 0 \/ numRetries # MaxRetries)

\* Ongoing that does not look at the context
OngoingNoCtx ==
    MaxRetries = 0 \/ numRetries < MaxRetries

Ongoing ==
    ctxErr = "nil" /\ (MaxRetries = 0 \/ numRetries < MaxRetries)

\* Err with the count compared by >
ErrStrict ==
    IF ctxErr # "nil" THEN ctxErr
    ELSE IF MaxRetries # 0 /\ numRetries > MaxRetries
         THEN "terminated after " \o ToString(numRetries) \o " retries"
         ELSE "nil"

\* Err that looks at the count before the context
ErrCountFirst ==
    IF MaxRetries # 0 /\ numRetries >= MaxRetries
    THEN "terminated after " \o ToString(numRetries) \o " retries"
    ELSE ctxErr

Err ==
    IF ctxErr # "nil" THEN ctxErr
    ELSE IF MaxRetries # 0 /\ numRetries >= MaxRetries
         THEN "terminated after " \o ToString(numRetries) \o " retries"
         ELSE "nil"

NumRetries == numRetries

-----------------------------------------------------------------------------
(* Construction *)

\* New without the default timeout
NewNoDefault(k, e, retries) ==
    /\ MaxRetries = retries
    /\ parent = k
    /\ ctxDeadline = (k = "WithTimeout")
    /\ ctxErr = e
    /\ cancel = "nil"
    /\ released = FALSE
    /\ numRetries = 0
    /\ nextDelay = 0
    /\ pc = "idle"
    /\ timer = << >>
    /\ lastOp = "New"
    /\ arg = 0
    /\ ret = "none"
    /\ entry = [count |-> 0, ongoing |-> FALSE]

\* New(ctx, retries) for a context of kind k that already carries error e
New(k, e, retries) ==
    LET synth == k # "WithTimeout" /\ retries = 0 IN
    /\ MaxRetries = retries
    /\ parent = k
    /\ ctxDeadline = (k = "WithTimeout" \/ synth)
    /\ ctxErr = e
    /\ cancel = IF synth THEN "set" ELSE "nil"
    /\ released = FALSE
    /\ numRetries = 0
    /\ nextDelay = 0
    /\ pc = "idle"
    /\ timer = << >>
    /\ lastOp = "New"
    /\ arg = 0
    /\ ret = "none"
    /\ entry = [count |-> 0, ongoing |-> FALSE]

\* no exporter has been registered
NoExporter == [registered |-> FALSE, MaxRetries |-> 0, numRetries |-> 0]

Init ==
    /\ \E k \in Parents, retries \in 0..MaxN : \E e \in ParentErrs(k) : New(k, e, retries)
    /\ loop = "none"
    /\ body = "none"
    /\ iters = 0
    /\ exporter = NoExporter

-----------------------------------------------------------------------------
(* The deadline source *)

\* the deadline of the context (the caller's, or the one New derived) passes
CtxExpire ==
    /\ ctxDeadline /\ ctxErr = "nil"
    /\ ctxErr' = "context deadline exceeded"
    /\ lastOp' = "CtxExpire"
    /\ UNCHANGED <<MaxRetries, parent, ctxDeadline, cancel, released, numRetries,
                   nextDelay, pc, timer, arg, ret, entry>>

\* the caller cancels the context it handed to New
CtxCancel ==
    /\ parent # "Background" /\ ctxErr = "nil"
    /\ ctxErr' = "context canceled"
    /\ lastOp' = "CtxCancel"
    /\ UNCHANGED <<MaxRetries, parent, ctxDeadline, cancel, released, numRetries,
                   nextDelay, pc, timer, arg, ret, entry>>

-----------------------------------------------------------------------------
(* The controller's operations *)

\* an Ongoing that counts its calls as retries
OngoingCallCounting ==
    /\ pc = "idle"
    /\ lastOp' = "Ongoing"
    /\ ret' = Ongoing
    /\ numRetries' = numRetries + 1
    /\ UNCHANGED <<MaxRetries, parent, ctxDeadline, ctxErr, cancel, released,
                   nextDelay, pc, timer, arg, entry>>

OngoingCall ==
    /\ pc = "idle"
    /\ lastOp' = "Ongoing"
    /\ ret' = Ongoing
    /\ UNCHANGED <<ctrl, arg, entry>>

ErrCall ==
    /\ pc = "idle"
    /\ lastOp' = "Err"
    /\ ret' = Err
    /\ UNCHANGED <<ctrl, arg, entry>>

NumRetriesCall ==
    /\ pc = "idle"
    /\ lastOp' = "NumRetries"
    /\ ret' = NumRetries
    /\ UNCHANGED <<ctrl, arg, entry>>

\* NextDelay that computes the delay from the count it finds, then increments
NextDelayOldCount(j) ==
    /\ nextDelay' = Pow2(numRetries) * Second + j * Millisecond
    /\ numRetries' = numRetries + 1

\* the state change of NextDelay() with jitter j
NextDelayBody(j) ==
    /\ numRetries' = numRetries + 1
    /\ nextDelay' = Pow2(numRetries') * Second + j * Millisecond

NextDelayCall ==
    /\ pc = "idle"
    /\ numRetries < MaxCount
    /\ \E j \in Intn(maxmilli) : NextDelayBody(j)
    /\ lastOp' = "NextDelay"
    /\ ret' = nextDelay'
    /\ UNCHANGED <<MaxRetries, parent, ctxDeadline, ctxErr, cancel, released, pc,
                   timer, arg, entry>>

\* Wait without the test of Ongoing
WaitNoGuard ==
    /\ \E j \in Intn(maxmilli) : NextDelayBody(j)
    /\ timer' = <<nextDelay'>>
    /\ pc' = "Wait.select"

\* Wait() up to its select: the channel operands, b.NextDelay() among them, are
\* evaluated on entering the select
WaitBody ==
    IF Ongoing
    THEN /\ \E j \in Intn(maxmilli) : NextDelayBody(j)
         /\ timer' = <<nextDelay'>>
         /\ pc' = "Wait.select"
    ELSE UNCHANGED <<numRetries, nextDelay, timer, pc>>

WaitCall ==
    /\ pc = "idle"
    /\ Ongoing => numRetries < MaxCount
    /\ WaitBody
    /\ lastOp' = "Wait"
    /\ arg' = 0
    /\ ret' = "none"
    /\ entry' = [count |-> numRetries, ongoing |-> Ongoing]
    /\ UNCHANGED <<MaxRetries, parent, ctxDeadline, ctxErr, cancel, released>>

\* WaitFor without the special case of no duration
WaitForNoZero(d) ==
    IF Ongoing
    THEN /\ numRetries' = numRetries + 1
         /\ \E j \in Intn(maxmilli) : timer' = <<d + j * Millisecond>>
         /\ pc' = "WaitFor.select"
         /\ UNCHANGED nextDelay
    ELSE UNCHANGED <<numRetries, nextDelay, timer, pc>>

\* WaitFor that counts the retry before looking at Ongoing
WaitForEager(d) ==
    IF d = 0
    THEN WaitBody
    ELSE /\ numRetries' = numRetries + 1
         /\ UNCHANGED nextDelay
         /\ IF Ongoing
            THEN /\ \E j \in Intn(maxmilli) : timer' = <<d + j * Millisecond>>
                 /\ pc' = "WaitFor.select"
            ELSE UNCHANGED <<timer, pc>>

\* WaitFor that counts the retry itself and computes NextDelay as well
WaitForTwice(d) ==
    IF d = 0
    THEN WaitBody
    ELSE IF Ongoing
         THEN /\ numRetries' = numRetries + 2
              /\ \E j \in Intn(maxmilli) :
                   /\ nextDelay' = Pow2(numRetries + 1) * Second + j * Millisecond
                   /\ timer' = <<d + j * Millisecond>>
              /\ pc' = "WaitFor.select"
         ELSE UNCHANGED <<numRetries, nextDelay, timer, pc>>

\* WaitFor(d) up to its select
WaitForBody(d) ==
    IF d = 0
    THEN WaitBody
    ELSE IF Ongoing
         THEN /\ numRetries' = numRetries + 1
              /\ \E j \in Intn(maxmilli) : timer' = <<d + j * Millisecond>>
              /\ pc' = "WaitFor.select"
              /\ UNCHANGED nextDelay
         ELSE UNCHANGED <<numRetries, nextDelay, timer, pc>>

WaitForCall ==
    /\ pc = "idle"
    /\ Ongoing => numRetries < MaxCount
    /\ \E d \in WaitForArgs :
         /\ WaitForBody(d)
         /\ arg' = d
    /\ lastOp' = "WaitFor"
    /\ ret' = "none"
    /\ entry' = [count |-> numRetries, ongoing |-> Ongoing]
    /\ UNCHANGED <<MaxRetries, parent, ctxDeadline, ctxErr, cancel, released>>

\* a select whose Done case is there only for a deadline the controller owns
SelectDoneOwned(at) ==
    /\ pc = at
    /\ ctxErr # "nil"
    /\ cancel # "nil"
    /\ released' = TRUE
    /\ pc' = "idle"
    /\ timer' = << >>
    /\ UNCHANGED <<MaxRetries, parent, ctxDeadline, ctxErr, cancel, numRetries,
                   nextDelay, arg, ret, entry>>

\* a Done case that invokes the cancel function without testing it
SelectDoneAlways(at) ==
    /\ pc = at
    /\ ctxErr # "nil"
    /\ released' = TRUE
    /\ pc' = "idle"
    /\ timer' = << >>
    /\ UNCHANGED <<MaxRetries, parent, ctxDeadline, ctxErr, cancel, numRetries,
                   nextDelay, arg, ret, entry>>

\* case <-b.ctx.Done(): taken once the context is done
SelectDone(at) ==
    /\ pc = at
    /\ ctxErr # "nil"
    /\ released' = IF cancel # "nil" THEN TRUE ELSE released
    /\ pc' = "idle"
    /\ timer' = << >>
    /\ UNCHANGED <<MaxRetries, parent, ctxDeadline, ctxErr, cancel, numRetries,
                   nextDelay, arg, ret, entry>>

\* case <-time.After(...): taken once the timer has fired
SelectTimer(at) ==
    /\ pc = at
    /\ pc' = "idle"
    /\ timer' = << >>
    /\ UNCHANGED <<MaxRetries, parent, ctxDeadline, ctxErr, cancel, released,
                   numRetries, nextDelay, arg, ret, entry>>

WaitDone == SelectDone("Wait.select") /\ lastOp' = "Wait.done"
WaitTimer == SelectTimer("Wait.select") /\ lastOp' = "Wait.timer"
WaitForDone == SelectDone("WaitFor.select") /\ lastOp' = "WaitFor.done"
WaitForTimer == SelectTimer("WaitFor.select") /\ lastOp' = "WaitFor.timer"

-----------------------------------------------------------------------------
(* Any sequence of calls on one controller, with the deadline source's events *)

free == UNCHANGED <<loop, body, iters, exporter>>

Next ==
    \/ OngoingCall /\ free
    \/ ErrCall /\ free
    \/ NumRetriesCall /\ free
    \/ NextDelayCall /\ free
    \/ WaitCall /\ free
    \/ WaitForCall /\ free
    \/ WaitDone /\ free
    \/ WaitTimer /\ free
    \/ WaitForDone /\ free
    \/ WaitForTimer /\ free
    \/ CtxExpire /\ free
    \/ CtxCancel /\ free

Spec == Init /\ [][Next]_vars

-----------------------------------------------------------------------------
(* The Prometheus exporter *)

\* Register(b, name): b is passed by value, and exporter(b) is handed to the registry
RegisterCall ==
    /\ pc = "idle"
    /\ ~exporter.registered
    /\ exporter' = [registered |-> TRUE, MaxRetries |-> MaxRetries,
                    numRetries |-> numRetries]
    /\ lastOp' = "Register"
    /\ ret' = "none"
    /\ UNCHANGED <<ctrl, arg, entry, loop, body, iters>>

\* a scrape: the registry calls Collect on the value it was handed
CollectCall ==
    /\ exporter.registered
    /\ lastOp' = "Collect"
    /\ ret' = [kit_backoff_retry_max |-> exporter.MaxRetries,
               kit_backoff_num_retries |-> exporter.numRetries]
    /\ UNCHANGED <<ctrl, arg, entry, loop, body, iters, exporter>>

\* a controller in use, registered at some point and scraped at any time
MetricsNext ==
    \/ RegisterCall
    \/ CollectCall
    \/ NextDelayCall /\ free
    \/ WaitCall /\ free
    \/ WaitForCall /\ free
    \/ WaitDone /\ free
    \/ WaitTimer /\ free
    \/ WaitForDone /\ free
    \/ WaitForTimer /\ free
    \/ CtxExpire /\ free
    \/ CtxCancel /\ free

MetricsSpec == Init /\ [][MetricsNext]_vars

-----------------------------------------------------------------------------
(* The retry loops of the tests and examples:                              *)
(*     for retry.Ongoing() { <body> }  ;  retry.Err()                      *)
(* with body one of retry.NextDelay(), retry.Wait(), retry.WaitFor(d).     *)
(* The deadline source's events interleave with the loop's steps.          *)

Bodies == {"NextDelay", "Wait", "WaitFor"}

\* The NextDelay loop is the loop of TestConfig/max retries, run on a count-bounded
\* controller: NextDelay() never blocks, so that loop is bounded by the count alone.

LoopInit ==
    /\ \E k \in Parents, retries \in 0..MaxN :
         \E e \in ParentErrs(k) : New(k, e, retries)
    /\ loop = "test"
    /\ body \in Bodies
    /\ body = "NextDelay" => MaxRetries > 0
    /\ iters = 0
    /\ exporter = NoExporter

\* the loop condition
LoopTest ==
    /\ loop = "test"
    /\ OngoingCall
    /\ loop' = IF ret' THEN "body" ELSE "done"
    /\ UNCHANGED <<body, iters, exporter>>

LoopNextDelay ==
    /\ loop = "body" /\ body = "NextDelay"
    /\ NextDelayCall
    /\ loop' = "test"
    /\ iters' = iters + 1
    /\ UNCHANGED <<body, exporter>>

LoopWait ==
    /\ loop = "body" /\ body = "Wait"
    /\ WaitCall
    /\ loop' = IF pc' = "idle" THEN "test" ELSE "waiting"
    /\ iters' = iters + 1
    /\ UNCHANGED <<body, exporter>>

LoopWaitFor ==
    /\ loop = "body" /\ body = "WaitFor"
    /\ WaitForCall
    /\ loop' = IF pc' = "idle" THEN "test" ELSE "waiting"
    /\ iters' = iters + 1
    /\ UNCHANGED <<body, exporter>>

\* the blocked call returns to the loop
LoopWaitDone == loop = "waiting" /\ WaitDone /\ loop' = "test" /\ UNCHANGED <<body, iters, exporter>>
LoopWaitTimer == loop = "waiting" /\ WaitTimer /\ loop' = "test" /\ UNCHANGED <<body, iters, exporter>>
LoopWaitForDone == loop = "waiting" /\ WaitForDone /\ loop' = "test" /\ UNCHANGED <<body, iters, exporter>>
LoopWaitForTimer == loop = "waiting" /\ WaitForTimer /\ loop' = "test" /\ UNCHANGED <<body, iters, exporter>>

\* retry.Err() after the loop
LoopErr ==
    /\ loop = "done"
    /\ ErrCall
    /\ loop' = "end"
    /\ UNCHANGED <<body, iters, exporter>>

LoopStep ==
    \/ LoopTest
    \/ LoopNextDelay
    \/ LoopWait
    \/ LoopWaitFor
    \/ LoopWaitDone
    \/ LoopWaitTimer
    \/ LoopWaitForDone
    \/ LoopWaitForTimer
    \/ LoopErr

LoopExpire == CtxExpire /\ free
LoopCancel == CtxCancel /\ free

LoopNext ==
    \/ LoopTest
    \/ LoopNextDelay
    \/ LoopWait
    \/ LoopWaitFor
    \/ LoopWaitDone
    \/ LoopWaitTimer
    \/ LoopWaitForDone
    \/ LoopWaitForTimer
    \/ LoopErr
    \/ LoopExpire
    \/ LoopCancel

\* the goroutine running the loop keeps running, a pending timer fires, and the
\* deadline of a context that has one passes
LoopSpec ==
    /\ LoopInit
    /\ [][LoopNext]_vars
    /\ WF_vars(LoopStep)
    /\ WF_vars(LoopExpire)

-----------------------------------------------------------------------------
(* NextDelay in the width of time.Duration                                 *)
(*                                                                         *)
(* time.Duration is a signed 64-bit count of nanoseconds. A word is held   *)
(* here as its bytes, least significant first, in two's complement; the    *)
(* operators take the number of bytes, so that the same expression can be  *)
(* evaluated in 64 bits, as the program does, and without overflow.        *)

MaxShift == 66       \* cap on numRetries in DelaySpec

WideBytes == 16      \* width, in bytes, of the words that hold values without overflow

SecondNs == 1000000000    \* time.Second
MillisecondNs == 1000000  \* time.Millisecond
DurationBytes == 8        \* time.Duration is an int64

\* the word of len bytes holding n >= 0
RECURSIVE Bytes(_, _)
Bytes(n, len) == IF len = 0 THEN << >> ELSE <<n % 256>> \o Bytes(n \div 256, len - 1)

\* 1 << k in a word of len bytes: the bit falls off the word when k >= 8 * len
Shl1(k, len) ==
    [i \in 1..len |-> IF (k \div 8) + 1 = i THEN Pow2(k % 8) ELSE 0]

\* column i of the product a * b, without carries
RECURSIVE Column(_, _, _, _)
Column(a, b, i, j) ==
    IF j > i THEN 0 ELSE a[j] * b[i - j + 1] + Column(a, b, i, j + 1)

\* bytes i.. of a * b, truncated to the length of a
RECURSIVE MulFrom(_, _, _, _)
MulFrom(a, b, i, carry) ==
    IF i > Len(a) THEN << >>
    ELSE LET t == Column(a, b, i, 1) + carry
         IN  <<t % 256>> \o MulFrom(a, b, i + 1, t \div 256)

MulW(a, b) == MulFrom(a, b, 1, 0)

\* bytes i.. of a + b, truncated to the length of a
RECURSIVE AddFrom(_, _, _, _)
AddFrom(a, b, i, carry) ==
    IF i > Len(a) THEN << >>
    ELSE LET t == a[i] + b[i] + carry
         IN  <<t % 256>> \o AddFrom(a, b, i + 1, t \div 256)

AddW(a, b) == AddFrom(a, b, 1, 0)

\* a - b in two's complement
SubW(a, b) ==
    AddW(a, AddW([i \in 1..Len(b) |-> 255 - b[i]], Bytes(1, Len(b))))

IsNeg(a) == a[Len(a)] >= 128

\* a < b as unsigned words, comparing from byte i down
RECURSIVE BelowFrom(_, _, _)
BelowFrom(a, b, i) ==
    IF i = 0 THEN FALSE
    ELSE IF a[i] # b[i] THEN a[i] < b[i]
    ELSE BelowFrom(a, b, i - 1)

\* a < b as signed words
Less(a, b) ==
    IF IsNeg(a) # IsNeg(b) THEN IsNeg(a) ELSE BelowFrom(a, b, Len(a))

\* the signed word a in len bytes
Extend(a, len) ==
    [i \in 1..len |-> IF i <= Len(a) THEN a[i] ELSE IF IsNeg(a) THEN 255 ELSE 0]

\* (1<<n)*time.Second + time.Duration(j)*time.Millisecond in words of len bytes
DelayW(n, j, len) ==
    AddW(MulW(Shl1(n, len), Bytes(SecondNs, len)),
         MulW(Bytes(j, len), Bytes(MillisecondNs, len)))

DelayInit ==
    /\ MaxRetries = 0
    /\ parent = "Background"
    /\ ctxDeadline = TRUE
    /\ ctxErr = "nil"
    /\ cancel = "set"
    /\ released = FALSE
    /\ numRetries = 0
    /\ nextDelay = Bytes(0, DurationBytes)
    /\ pc = "idle"
    /\ timer = << >>
    /\ lastOp = "New"
    /\ arg = 0
    /\ ret = Bytes(0, DurationBytes)
    /\ entry = [count |-> 0, ongoing |-> FALSE]
    /\ loop = "none"
    /\ body = "none"
    /\ iters = 0
    /\ exporter = NoExporter

\* NextDelay() with the delay computed in 64 bits; arg records the jitter drawn
NextDelay64 ==
    /\ pc = "idle"
    /\ numRetries < MaxShift
    /\ numRetries' = numRetries + 1
    /\ \E j \in Intn(maxmilli) :
         /\ nextDelay' = DelayW(numRetries', j, DurationBytes)
         /\ arg' = j
    /\ ret' = nextDelay'
    /\ lastOp' = "NextDelay"
    /\ UNCHANGED <<MaxRetries, parent, ctxDeadline, ctxErr, cancel, released, pc,
                   timer, entry, loop, body, iters, exporter>>

\* successive NextDelay() calls on one controller
DelaySpec == DelayInit /\ [][NextDelay64]_vars

-----------------------------------------------------------------------------
(* ShouldRetryHTTP *)

MaxStatus == 700     \* status codes run over -MaxStatus..MaxStatus

\* Go's integer division, which truncates towards zero
GoDiv(a, b) == IF a >= 0 THEN a \div b ELSE 0 - ((0 - a) \div b)

\* ShouldRetryHTTP that takes every status from 500 up for a server error
ShouldRetryHTTPFrom500(code) == code = 429 \/ code >= 500

ShouldRetryHTTP(code) == code = 429 \/ GoDiv(code, 100) = 5

StatusCodes == (0 - MaxStatus)..MaxStatus

HTTPInit ==
    /\ New("Background", "nil", MaxN)
    /\ loop = "none"
    /\ body = "none"
    /\ iters = 0
    /\ exporter = NoExporter

\* ShouldRetryHTTP(rsp) for a response of some status; arg records the status
ShouldRetryHTTPCall ==
    /\ \E code \in StatusCodes :
         /\ arg' = code
         /\ ret' = ShouldRetryHTTP(code)
    /\ lastOp' = "ShouldRetryHTTP"
    /\ UNCHANGED <<ctrl, entry, loop, body, iters, exporter>>

HTTPSpec == HTTPInit /\ [][ShouldRetryHTTPCall]_vars

-----------------------------------------------------------------------------
(* Properties *)

\* C1 (as stated): under any sequence of Ongoing, Err, NumRetries, NextDelay, Wait
\* and WaitFor on a controller built with maxRetries > 0, the retry count never
\* decreases and never exceeds maxRetries.
C1_CountNeverExceedsMax ==
    [][/\ numRetries' >= numRetries
       /\ MaxRetries > 0 => numRetries' <= MaxRetries]_vars

\* C1 (amended): the retry count never decreases, and on a controller built with
\* maxRetries > 0 the only step that raises it above maxRetries is a NextDelay()
\* called when the controller is no longer ongoing: Wait, WaitFor, and a NextDelay
\* called while the controller is ongoing, leave it at most maxRetries.
C1_CountExceedsMaxOnlyByLateNextDelay ==
    [][/\ numRetries' >= numRetries
       /\ (MaxRetries > 0 /\ numRetries' > numRetries /\ numRetries' > MaxRetries)
            => /\ lastOp' = "NextDelay"
               /\ ctxErr # "nil" \/ numRetries >= MaxRetries]_vars

\* a Wait or WaitFor was called with the count at maxRetries, and left it there
C1_Witness ==
    /\ MaxRetries > 0
    /\ lastOp \in {"Wait", "WaitFor"}
    /\ ctxErr = "nil"
    /\ entry.count = MaxRetries
    /\ numRetries = MaxRetries

\* C5: Ongoing() returns true if and only if the deadline source is neither
\* expired nor cancelled and (maxRetries is 0 or the retry count is below
\* maxRetries).
C5_OngoingReturns ==
    lastOp = "Ongoing" =>
        (ret = TRUE <=> (/\ ctxErr \notin {"context deadline exceeded", "context canceled"}
                         /\ MaxRetries = 0 \/ numRetries < MaxRetries))

\* Ongoing() returned false on a live deadline whose count bound is reached
C5_Witness ==
    /\ lastOp = "Ongoing"
    /\ ret = FALSE
    /\ ctxErr = "nil"
    /\ MaxRetries > 0
    /\ numRetries = MaxRetries

\* the retry-exhausted error for a count of n
Exhausted(n) == "terminated after " \o ToString(n) \o " retries"

\* C6: Err() is nil exactly when Ongoing() is true; when the controller is not
\* ongoing it reports the deadline source's own error whenever the deadline has
\* expired or been cancelled (count exhausted or not), and the retry-exhausted
\* error only when the deadline is live and the count bound is reached.
C6_ErrReportsOneReason ==
    /\ (Err = "nil") <=> Ongoing
    /\ ctxErr # "nil" => Err = ctxErr
    /\ Err = Exhausted(numRetries)
         <=> (ctxErr = "nil" /\ MaxRetries > 0 /\ numRetries >= MaxRetries)
    /\ lastOp = "Err" => ret = Err

\* Err() was called with the deadline expired and the count exhausted as well, and
\* reported the deadline
C6_Witness ==
    /\ lastOp = "Err"
    /\ ret = "context deadline exceeded"
    /\ MaxRetries > 0
    /\ numRetries >= MaxRetries

\* C7: once Ongoing() is false it is false in every later state, whatever
\* operations are called and whatever the deadline source does.
C7_TerminatedIsForEver ==
    [][~Ongoing => ~Ongoing']_vars

\* NextDelay() was called on a controller whose count was already exhausted
C7_Witness ==
    /\ lastOp = "NextDelay"
    /\ MaxRetries > 0
    /\ numRetries > MaxRetries
    /\ ~Ongoing

\* C2: with maxRetries = N > 0 and a deadline source that neither expires nor is
\* cancelled, the loop `for Ongoing() { NextDelay() }` terminates after exactly N
\* iterations, and Err() afterwards is "terminated after N retries".
C2_NextDelayLoopEndsAfterN ==
    /\ [](body = "NextDelay" /\ loop \in {"done", "end"} /\ ctxErr = "nil"
            => iters = MaxRetries /\ NumRetries = MaxRetries)
    /\ [](body = "NextDelay" /\ loop = "end" /\ ctxErr = "nil"
            => ret = "terminated after " \o ToString(MaxRetries) \o " retries")
    /\ (body = "NextDelay") ~> (loop = "end")

\* the NextDelay loop of a controller built with the largest maxRetries has ended
\* on its count, and Err() has been read
C2_Witness ==
    /\ body = "NextDelay"
    /\ loop = "end"
    /\ parent = "Background"
    /\ MaxRetries = MaxN
    /\ iters = MaxN

\* C3: with maxRetries = 0 and a caller deadline that expires, the loop
\* `for Ongoing() { Wait() }` terminates, no Wait stays blocked once the deadline
\* has fired, and Err() afterwards is the deadline-exceeded error.
C3_WaitLoopEndsOnDeadline ==
    LET case == MaxRetries = 0 /\ body = "Wait" /\ parent = "WithTimeout" IN
    /\ case ~> (loop = "end")
    /\ (case /\ pc = "Wait.select" /\ ctxErr # "nil") ~> (pc = "idle")
    /\ [](case /\ loop \in {"done", "end"} => ctxErr # "nil")
    /\ [](case /\ loop = "end" /\ ctxErr # "context canceled"
            => ret = "context deadline exceeded")

\* the caller's deadline fired while a Wait of the loop was blocked, the loop
\* ended and Err() reported the deadline
C3_Witness ==
    /\ MaxRetries = 0 /\ body = "Wait" /\ parent = "WithTimeout"
    /\ loop = "end"
    /\ iters > 0
    /\ ret = "context deadline exceeded"

\* C4: every controller New returns has a bound: with no expiry on the supplied
\* source and maxRetries = 0 it holds a synthesized timeout, so the loop
\* `for Ongoing() { Wait() }` terminates, with the deadline-exceeded error unless
\* the caller cancelled the source; in every other case the caller's expiry or
\* maxRetries > 0 bounds the loop, which terminates as well.
C4_EveryControllerIsBounded ==
    /\ [](MaxRetries > 0 \/ ctxDeadline)
    /\ [](parent # "WithTimeout" /\ MaxRetries = 0 => cancel = "set")
    /\ (body = "Wait") ~> (loop = "end")
    /\ [](body = "Wait" /\ MaxRetries = 0 /\ parent # "WithTimeout" /\ loop = "end"
            /\ ctxErr # "context canceled"
            => ret = "context deadline exceeded")

\* built on context.Background() with maxRetries = 0, the Wait loop has ended on
\* the synthesized deadline
C4_Witness ==
    /\ body = "Wait" /\ MaxRetries = 0 /\ parent = "Background"
    /\ loop = "end"
    /\ iters > 0
    /\ ret = "context deadline exceeded"

\* C8: a Wait() or WaitFor(d), d zero or not, called while the controller is
\* ongoing raises the retry count by exactly one, while it is blocked and when it
\* has returned, whether the delay elapsed or the deadline fired.
C8_OneIncrementPerWait ==
    (/\ lastOp \in {"Wait", "Wait.done", "Wait.timer",
                    "WaitFor", "WaitFor.done", "WaitFor.timer"}
     /\ entry.ongoing)
        => numRetries = entry.count + 1

\* a WaitFor(d) with d # 0, called while ongoing, was ended by the deadline
C8_Witness ==
    /\ lastOp = "WaitFor.done"
    /\ arg > 0
    /\ entry.ongoing
    /\ numRetries = entry.count + 1

\* what a Wait() call does up to its select, and where it leaves the caller
WaitEffect ==
    IF ctxErr = "nil" /\ (MaxRetries = 0 \/ numRetries < MaxRetries)
    THEN /\ numRetries' = numRetries + 1
         /\ \E j \in 0..(maxmilli - 1) :
              nextDelay' = Pow2(numRetries + 1) * Second + j * Millisecond
         /\ timer' = <<nextDelay'>>
         /\ pc' = "Wait.select"
         /\ UNCHANGED <<ctxErr, ctxDeadline, cancel, released>>
    ELSE UNCHANGED <<numRetries, nextDelay, timer, pc, ctxErr, ctxDeadline, cancel, released>>

\* C9: WaitFor(0) does what Wait() does: one increment of the retry count, the
\* exponential delay with jitter as the new last computed delay and as the time
\* it blocks for, the select of Wait (and so its release of an owned deadline),
\* and nothing at all when the controller is not ongoing.
C9_WaitForZeroIsWait ==
    [][/\ (pc = "idle" /\ lastOp' = "WaitFor" /\ arg' = 0) => WaitEffect
       /\ (pc = "idle" /\ lastOp' = "Wait") => WaitEffect]_vars

\* WaitFor(0) was called while ongoing and is blocked in the select of Wait
C9_Witness ==
    /\ lastOp = "WaitFor"
    /\ arg = 0
    /\ entry.ongoing
    /\ pc = "Wait.select"
    /\ timer = <<nextDelay>>

\* C10: when the controller is not ongoing, Wait() and WaitFor(d) for any d return
\* at once and leave the retry count, the last computed delay and the deadline
\* source as they are.
C10_WaitIsNoOpWhenTerminated ==
    [][(/\ pc = "idle"
        /\ lastOp' \in {"Wait", "WaitFor"}
        /\ ~(ctxErr = "nil" /\ (MaxRetries = 0 \/ numRetries < MaxRetries)))
          => /\ pc' = "idle"
             /\ UNCHANGED <<numRetries, nextDelay, timer, ctxErr, ctxDeadline,
                            cancel, released>>]_vars

\* WaitFor(d) with d # 0 was called on a controller whose count is exhausted
C10_Witness ==
    /\ lastOp = "WaitFor"
    /\ arg > 0
    /\ ~entry.ongoing
    /\ ctxErr = "nil"
    /\ pc = "idle"
    /\ numRetries = entry.count


\* C11: a blocked Wait() or WaitFor(d) is a race between its timer and the
\* deadline's done signal: the timer can always end it, and once the deadline
\* source has expired or been cancelled the done signal can end it without the
\* timer firing; a call the done signal has ended leaves a controller that is not
\* ongoing.
C11_BlockedWaitIsARace ==
    /\ pc = "Wait.select" => ENABLED WaitTimer
    /\ pc = "WaitFor.select" => ENABLED WaitForTimer
    /\ (pc = "Wait.select" /\ ctxErr # "nil") => ENABLED WaitDone
    /\ (pc = "WaitFor.select" /\ ctxErr # "nil") => ENABLED WaitForDone
    /\ (pc = "Wait.select" /\ ctxErr = "nil") => ~ENABLED WaitDone
    /\ (pc = "WaitFor.select" /\ ctxErr = "nil") => ~ENABLED WaitForDone
    /\ lastOp \in {"Wait.done", "WaitFor.done"} => (pc = "idle" /\ ~Ongoing)

\* a WaitFor(d), d # 0, that started on a live caller-supplied context was ended
\* by the caller's cancellation
C11_Witness ==
    /\ lastOp = "WaitFor.done"
    /\ arg > 0
    /\ entry.ongoing
    /\ cancel = "nil"
    /\ ctxErr = "context canceled"
    /\ pc = "idle"

\* C12: the controller holds a cancel function if and only if New synthesized the
\* deadline (the source had no expiry and maxRetries = 0); the only step that
\* invokes it is the Done case of a Wait/WaitFor select, on a context that is
\* done, and only for a synthesized deadline: a caller-supplied source is never
\* cancelled by the controller.
C12_ReleaseOnlyOwnedOnlyOnDone ==
    /\ [](cancel = "set" <=> (parent # "WithTimeout" /\ MaxRetries = 0))
    /\ [](released => cancel = "set")
    /\ [][/\ released' # released
             => /\ cancel = "set"
                /\ lastOp' \in {"Wait.done", "WaitFor.done"}
                /\ ctxErr # "nil"
          /\ ctxErr' # ctxErr => lastOp' \in {"CtxExpire", "CtxCancel"}]_vars

\* the Done case of a Wait on a synthesized deadline has invoked the release
C12_Witness ==
    /\ lastOp = "Wait.done"
    /\ cancel = "set"
    /\ released
    /\ parent = "Background"


\* the delay d less a jitter of j milliseconds, in the width of time.Duration
BaseOf(d, j) ==
    SubW(d, MulW(Bytes(j, DurationBytes), Bytes(MillisecondNs, DurationBytes)))

\* 2^k seconds in nanoseconds, without overflow
TrueSeconds(k) == MulW(Shl1(k, WideBytes), Bytes(SecondNs, WideBytes))

\* C13 (as stated): for every number of successive NextDelay() calls, the base
\* delay (the returned delay less its jitter) of the k-th call is 2^k seconds,
\* and each base delay is strictly greater than the one before, large k
\* included, in the signed 64-bit nanosecond type.
C13_BaseDelayDoubles ==
    /\ [](numRetries >= 1
            => Extend(BaseOf(nextDelay, arg), WideBytes) = TrueSeconds(numRetries))
    /\ [][numRetries >= 1
            => Less(BaseOf(nextDelay, arg), BaseOf(nextDelay', arg'))]_vars


\* j is a whole number of milliseconds of [0, 1000 ms)
IsJitter(j) ==
    /\ j % Millisecond = 0
    /\ j >= 0
    /\ j < 1000 * Millisecond

C15_JitterBelowOneSecond ==
    /\ lastOp = "NextDelay" => IsJitter(ret - Pow2(numRetries) * Second)
    /\ pc = "Wait.select"
         => /\ timer = <<nextDelay>>
            /\ IsJitter(timer[1] - Pow2(numRetries) * Second)
    /\ pc = "WaitFor.select" => IsJitter(timer[1] - arg)

\* a WaitFor(d), d # 0, is blocked for d and the largest jitter
C15_Witness ==
    /\ pc = "WaitFor.select"
    /\ arg > 0
    /\ timer[1] - arg = (maxmilli - 1) * Millisecond


\* C16 (as stated): after Register(b, name), every later collection reports the
\* controller's current state: the retry-count gauge is its NumRetries() at that
\* moment, the max-retries gauge its maxRetries; and collecting leaves the
\* controller's state as it is.
C16_ExporterReportsCurrentState ==
    /\ [](lastOp = "Collect"
            => /\ ret.kit_backoff_num_retries = NumRetries
               /\ ret.kit_backoff_retry_max = MaxRetries)
    /\ [][lastOp' = "Collect" => UNCHANGED ctrl]_vars


\* C17: Ongoing(), Err() and NumRetries() are pure queries: a call leaves the
\* retry count, the last computed delay, the deadline source and everything else
\* of the controller as it is, NumRetries() returns the retry count, and a query
\* repeated with nothing in between returns what it returned before.
C17_QueriesArePure ==
    [][lastOp' \in {"Ongoing", "Err", "NumRetries"}
         => /\ UNCHANGED ctrl
            /\ lastOp' = "NumRetries" => ret' = numRetries
            /\ lastOp' = lastOp => ret' = ret]_vars

\* NumRetries() was called after some retries
C17_Witness ==
    /\ lastOp = "NumRetries"
    /\ numRetries > 0
    /\ ret = numRetries

\* C18: ShouldRetryHTTP takes a response for retryable if and only if its status
\* is 429 or lies in [500, 599]; 200-399 and every 4xx but 429 are not retryable.
C18_RetryOn429And5xx ==
    lastOp = "ShouldRetryHTTP" =>
        /\ ret = TRUE <=> (arg = 429 \/ (arg >= 500 /\ arg <= 599))
        /\ (arg >= 200 /\ arg <= 499 /\ arg # 429) => ret = FALSE

\* a response of status 599 was found retryable
C18_Witness ==
    /\ lastOp = "ShouldRetryHTTP"
    /\ arg = 599
    /\ ret = TRUE


\* C19 (as stated): Wait sleeps for the backoff time and then increases the retry
\* count: while a Wait() call is blocked the retry count still has the value it
\* had before the call, and the increment has taken place once the sleep has
\* ended.
C19_WaitSleepsThenCounts ==
    /\ pc = "Wait.select" => numRetries = entry.count
    /\ (lastOp \in {"Wait.done", "Wait.timer"} /\ entry.ongoing)
         => numRetries = entry.count + 1

\* C20 (as stated): for a controller that owns a synthesized deadline, whenever
\* its retry loop has exited because the deadline fired, the owned deadline's
\* release has been invoked - also when the deadline fired between two waits,
\* during the caller's operation, in a loop that has waited before.
C20_OwnedDeadlineReleasedAtExit ==
    (/\ loop \in {"done", "end"}
     /\ body \in {"Wait", "WaitFor"}
     /\ iters > 0
     /\ cancel = "set"
     /\ ctxErr = "context deadline exceeded")
        => released

====
